---------------------------- MODULE Spec2Model ----------------------------
(***************************************************************************)
(* Model of the aws_iam_credential_report resource                         *)
(* (aws/resource_aws_iam_credential_report.go).                            *)
(*                                                                         *)
(* The resource record d has an id and a "report" list.  Create and Update *)
(* set the id and run Read; Read triggers report generation, polls         *)
(* GetCredentialReport inside resource.Retry, parses the CSV payload,      *)
(* lists the virtual MFA devices, flags the rows that own one and stores   *)
(* the flattened rows.  Delete returns nil.  Import passes the given id    *)
(* through.                                                                *)
(*                                                                         *)
(* A CSV payload is a sequence of lines, a line a sequence of fields; a    *)
(* blank line is the empty sequence.  A device serial number is a record   *)
(* of the pieces of its text: pre \o acct \o sep \o name, acct being a     *)
(* sequence of characters.                                                 *)
(***************************************************************************)
EXTENDS Integers, Sequences, FiniteSets, TLC

VARIABLES
    id,        \* d.Id()
    report,    \* d.Get("report"): the stored list of flattened rows
    op,        \* the handler running or last run
    pc,        \* its position
    result,    \* the error it returned ("nil": none)
    calls,     \* the requests issued on iamconn by the last Read, in order
    content,   \* getReportOutput.Content of the last successful fetch
    rows,      \* the callback's local report: the parsed rows
    devices    \* listMfaOutput.VirtualMFADevices

vars == <<id, report, op, pc, result, calls, content, rows, devices>>

---------------------------------------------------------------------------
(* Bounds of the model. *)

\* data lines in a generated credential report
MaxLines == 2
\* virtual MFA devices the listing returns
MaxDevices == 2
\* GetCredentialReport attempts that fit in the one-minute budget at most
MaxAttempts == 2

SeqUpTo(S, n) == UNION {[1..k -> S] : k \in 0..n}

---------------------------------------------------------------------------
(* The columns and the CSV payloads the service may return. *)

BoolColumns ==
    {"password_enabled", "mfa_active", "access_key_1_active", "access_key_2_active"}

StringColumns ==
    {"user", "password_last_used", "password_last_changed",
     "access_key_1_last_used_date", "access_key_1_last_rotated",
     "access_key_2_last_used_date", "access_key_2_last_rotated"}

\* the columns parseCsvCredentialReport looks up
RequiredColumns == BoolColumns \cup StringColumns

\* the header of a credential report, in the order IAM writes the columns
FullHeader ==
    <<"user", "arn", "password_enabled", "password_last_used",
      "password_last_changed", "mfa_active",
      "access_key_1_active", "access_key_1_last_rotated",
      "access_key_1_last_used_date",
      "access_key_2_active", "access_key_2_last_rotated",
      "access_key_2_last_used_date">>

Reverse(s) == [i \in 1..Len(s) |-> s[Len(s) + 1 - i]]

Without(s, k) == SelectSeq(s, LAMBDA x : x # k)

\* headers holding every required column: IAM's order and another order
CompleteHeaders == {FullHeader, Reverse(FullHeader)}

\* headers with one required column left out
IncompleteHeaders == {Without(FullHeader, k) : k \in RequiredColumns}

\* the users of the account
Users == {"alice", "<root_account>"}

\* what the service reports of a user: every boolean column carries the
\* literal true for one user and another token for the other
UserLine(u) ==
    IF u = "alice"
    THEN [password_enabled |-> "true", mfa_active |-> "false",
          access_key_1_active |-> "TRUE", access_key_2_active |-> "true"]
    ELSE [password_enabled |-> "not_supported", mfa_active |-> "true",
          access_key_1_active |-> "true", access_key_2_active |-> ""]

\* the field of column k in the line of user u
Cell(u, k) ==
    CASE k = "user" -> u
      [] k = "password_enabled" -> UserLine(u).password_enabled
      [] k = "mfa_active" -> UserLine(u).mfa_active
      [] k = "access_key_1_active" -> UserLine(u).access_key_1_active
      [] k = "access_key_2_active" -> UserLine(u).access_key_2_active
      [] k = "password_last_used" -> "no_information"
      [] k = "password_last_changed" -> "2019-01-01T00:00:00+00:00"
      [] k = "access_key_1_last_used_date" -> "N/A"
      [] k = "access_key_1_last_rotated" -> "2019-02-02T00:00:00+00:00"
      [] k = "access_key_2_last_used_date" -> "2019-03-03T00:00:00+00:00"
      [] k = "access_key_2_last_rotated" -> "2019-04-04T00:00:00+00:00"
      [] OTHER -> "arn:aws:iam::123456789012:user/x"

\* the data line of user u under header h: one field per column, in h's order
MkLine(h, u) == [i \in 1..Len(h) |-> Cell(u, h[i])]

\* a well-formed payload: the header, then one line per listed user
MkContent(h, us) == <<h>> \o [i \in 1..Len(us) |-> MkLine(h, us[i])]

WellFormedContents ==
    {MkContent(h, us) : h \in CompleteHeaders, us \in SeqUpTo(Users, MaxLines)}
      \cup {MkContent(h, <<u>>) : h \in IncompleteHeaders, u \in Users}

\* payloads with blank lines, which the CSV reader skips
BlankLineContents ==
    {<<<<>>, FullHeader, <<>>, MkLine(FullHeader, u), <<>>>> : u \in Users}

\* payloads the CSV reader rejects: no record at all, or a line with a
\* field count other than the header's
MalformedContents ==
    {<<>>, <<<<>>>>}
      \cup {<<FullHeader, Tail(MkLine(FullHeader, u))>> : u \in Users}
      \cup {<<FullHeader, MkLine(FullHeader, u), <<u>>>> : u \in Users}

Contents == WellFormedContents \cup BlankLineContents \cup MalformedContents

---------------------------------------------------------------------------
(* encoding/csv as parseCsvCredentialReport uses it. *)

\* the records of a payload: csv.Reader skips blank lines
csvRecords(c) == SelectSeq(c, LAMBDA line : line # <<>>)

\* header[k] of the Go map built from the header line (0-based): the last
\* position of k, and the zero value 0 for a name the line lacks
headerIndex(headerLine, k) ==
    LET at == {i \in 1..Len(headerLine) : headerLine[i] = k}
    IN  IF at = {} THEN 0 ELSE (CHOOSE i \in at : \A j \in at : j <= i) - 1

\* line[header[k]]
field(line, headerLine, k) == line[headerIndex(headerLine, k) + 1]

parseCsvBool_anyCase(csv) == csv \in {"true", "TRUE", "True"}

parseCsvBool(csv) == csv = "true"

\* the ReportRow built from one line
ReportRow(line, h) ==
    [User                |-> field(line, h, "user"),
     PasswordEnabled     |-> parseCsvBool(field(line, h, "password_enabled")),
     PasswordLastUsed    |-> field(line, h, "password_last_used"),
     PasswordLastChanged |-> field(line, h, "password_last_changed"),
     MfaActive           |-> parseCsvBool(field(line, h, "mfa_active")),
     MfaVirtual          |-> FALSE,
     AccessKeys          |->
       << [Active       |-> parseCsvBool(field(line, h, "access_key_1_active")),
           LastUsedDate |-> field(line, h, "access_key_1_last_used_date"),
           LastRotated  |-> field(line, h, "access_key_1_last_rotated")],
          [Active       |-> parseCsvBool(field(line, h, "access_key_2_active")),
           LastUsedDate |-> field(line, h, "access_key_2_last_used_date"),
           LastRotated  |-> field(line, h, "access_key_2_last_rotated")] >>]

\* (rows, err): reader.Read() fails with EOF on a payload without records,
\* reader.ReadAll() with ErrFieldCount on a record whose field count is not
\* the first record's (FieldsPerRecord is 0); rows is nil on an error
parseCsvCredentialReport(c) ==
    LET records == csvRecords(c)
    IN  IF records = <<>>
        THEN [rows |-> <<>>, err |-> "EOF"]
        ELSE LET headerLine == Head(records)
                 lines      == Tail(records)
             IN  IF \E i \in 1..Len(lines) : Len(lines[i]) # Len(headerLine)
                 THEN [rows |-> <<>>, err |-> "ErrFieldCount"]
                 ELSE [rows |-> [i \in 1..Len(lines) |-> ReportRow(lines[i], headerLine)],
                       err  |-> "nil"]

---------------------------------------------------------------------------
(* flattenCredentialReport and flattenAccessKeys. *)

flattenAccessKeys(accessKeys) ==
    [i \in 1..Len(accessKeys) |->
       [active         |-> accessKeys[i].Active,
        last_used_date |-> accessKeys[i].LastUsedDate,
        last_rotated   |-> accessKeys[i].LastRotated]]

flattenRow(row) ==
    [user                  |-> row.User,
     password_enabled      |-> row.PasswordEnabled,
     password_last_used    |-> row.PasswordLastUsed,
     password_last_changed |-> row.PasswordLastChanged,
     mfa_active            |-> row.MfaActive,
     mfa_virtual           |-> row.MfaVirtual,
     access_keys           |-> flattenAccessKeys(row.AccessKeys)]

\* out = append([m], out...): the rows come out last first
flattenCredentialReport_prepend(r) == [i \in 1..Len(r) |-> flattenRow(r[Len(r) + 1 - i])]

\* out = append(out, m) for each row in turn
flattenCredentialReport(r) == [i \in 1..Len(r) |-> flattenRow(r[i])]

---------------------------------------------------------------------------
(* The virtual MFA devices and the enrichment of the rows. *)

Digits == {"0", "1", "2", "3", "4", "5", "6", "7", "8", "9"}

Serial(pre, acct, sep, name) == [pre |-> pre, acct |-> acct, sep |-> sep, name |-> name]

\* serial numbers the listing may return
Serials ==
    { Serial("arn:aws:iam::", <<"1", "2">>, ":mfa/", "alice"),
      Serial("arn:aws:iam::", <<"1", "2">>, ":mfa/", "root-account-mfa-device"),
      Serial("not-an-arn", <<>>, "", ""),
      Serial("arn:aws:iam::", <<"1", "a">>, ":mfa/", "<root_account>") }

DeviceLists == SeqUpTo(Serials, MaxDevices)

\* serial.FindStringSubmatch for ^arn:aws:iam::[0-9]+:mfa/(.*)$ : nil, or the
\* whole match and the group
FindStringSubmatch(s) ==
    IF /\ s.pre = "arn:aws:iam::"
       /\ Len(s.acct) >= 1
       /\ \A i \in 1..Len(s.acct) : s.acct[i] \in Digits
       /\ s.sep = ":mfa/"
    THEN <<s, s.name>>
    ELSE <<>>

accountName_asIs(match) == match[2]

\* the name a match stands for in the report
accountName(match) ==
    IF match[2] = "root-account-mfa-device" THEN "<root_account>" ELSE match[2]

\* the set built by the loop over the devices
accountsWithVirtualMfa(ds) ==
    {accountName(FindStringSubmatch(ds[i])) :
       i \in {j \in 1..Len(ds) : Len(FindStringSubmatch(ds[j])) > 1}}

\* the loop over the rows: row.MfaVirtual = true for the users of the set
Enrich(r, ds) ==
    [i \in 1..Len(r) |->
       IF r[i].User \in accountsWithVirtualMfa(ds)
       THEN [r[i] EXCEPT !.MfaVirtual = TRUE]
       ELSE r[i]]

---------------------------------------------------------------------------
(* The handlers. *)

\* the id Update gives the resource
ResourceId == "iam-credential-report"

\* ids an import may be asked for
ImportIds == {"iam-credential-report", "my-report"}

\* errors GetCredentialReport may return: service errors with a code
\* (awserr.Error) and a plain transport error
GetErrors ==
    { [aws |-> TRUE,  code |-> "ReportInProgress"],
      [aws |-> TRUE,  code |-> "ReportNotPresent"],
      [aws |-> TRUE,  code |-> "ServiceFailure"],
      [aws |-> FALSE, code |-> "RequestError"] }

Call(api, out) == [api |-> api, out |-> out]

NumGets(cs) == Cardinality({i \in 1..Len(cs) : cs[i].api = "GetCredentialReport"})

\* what the retried function returns: nil, or an error and whether to retry
NoError == [Err |-> "nil", Retryable |-> FALSE]

RetryableError(err) == [Err |-> err, Retryable |-> TRUE]

NonRetryableError(err) == [Err |-> err, Retryable |-> FALSE]

getReportError_neverRetry(err) == NonRetryableError(err.code)

getReportError_alwaysRetry(err) == RetryableError(err.code)

\* the error branch after GetCredentialReport: retry while the report is
\* still being generated, give up otherwise
getReportError(err) ==
    IF err.aws /\ err.code = "ReportInProgress"
    THEN RetryableError(err.code)
    ELSE NonRetryableError(err.code)

\* resource.Retry on what the function returned: done on nil, another
\* attempt on a retryable error, the error itself otherwise
Retry(rerr) ==
    IF rerr = NoError THEN [pc |-> "done", result |-> "nil"]
    ELSE IF rerr.Retryable THEN [pc |-> "get", result |-> "none"]
    ELSE [pc |-> "done", result |-> rerr.Err]

Init ==
    /\ id = ""
    /\ report = <<>>
    /\ op = "none"
    /\ pc = "idle"
    /\ result = "none"
    /\ calls = <<>>
    /\ content = <<>>
    /\ rows = <<>>
    /\ devices = <<>>

\* no handler is running
Idle == pc \in {"idle", "done"}

\* entry of resourceAwsIamCredentialReportRead
BeginRead ==
    /\ pc' = "generate"
    /\ result' = "none"
    /\ calls' = <<>>
    /\ content' = <<>>
    /\ rows' = <<>>
    /\ devices' = <<>>
    /\ UNCHANGED report

\* Create of a resource that is not in the state yet
Create ==
    /\ Idle
    /\ id = ""
    /\ op' = "create"
    /\ id' = ResourceId
    /\ BeginRead

\* Update of a resource of the state
Update ==
    /\ Idle
    /\ id # ""
    /\ op' = "update"
    /\ id' = ResourceId
    /\ BeginRead

Read_cached ==
    /\ Idle
    /\ id # ""
    /\ op' = "read"
    /\ IF report # <<>>
       THEN /\ pc' = "done"
            /\ result' = "nil"
            /\ calls' = <<>>
            /\ content' = <<>>
            /\ rows' = <<>>
            /\ devices' = <<>>
            /\ UNCHANGED <<id, report>>
       ELSE /\ BeginRead
            /\ UNCHANGED id

\* Read of a resource of the state
Read ==
    /\ Idle
    /\ id # ""
    /\ op' = "read"
    /\ UNCHANGED id
    /\ BeginRead

\* iamconn.GenerateCredentialReport: an error is returned as it is
GenerateCredentialReport ==
    /\ pc = "generate"
    /\ \E err \in {"nil", "GenerateError"} :
         /\ calls' = Append(calls, Call("GenerateCredentialReport", err))
         /\ IF err # "nil"
            THEN pc' = "done" /\ result' = err
            ELSE pc' = "get" /\ result' = "none"
    /\ UNCHANGED <<id, report, op, content, rows, devices>>

\* one attempt of the retried function up to the parse:
\* iamconn.GetCredentialReport, then parseCsvCredentialReport
GetCredentialReport ==
    /\ pc = "get"
    /\ NumGets(calls) < MaxAttempts
    /\ \/ \E err \in GetErrors :
            LET next == Retry(getReportError(err))
            IN  /\ calls' = Append(calls, Call("GetCredentialReport", err.code))
                /\ pc' = next.pc
                /\ result' = next.result
                /\ UNCHANGED <<content, rows>>
       \/ \E c \in Contents :
            LET parsed == parseCsvCredentialReport(c)
                next   == Retry(NonRetryableError(parsed.err))
            IN  /\ calls' = Append(calls, Call("GetCredentialReport", "nil"))
                /\ content' = c
                /\ IF parsed.err # "nil"
                   THEN /\ pc' = next.pc
                        /\ result' = next.result
                        /\ UNCHANGED rows
                   ELSE /\ pc' = "list"
                        /\ result' = "none"
                        /\ rows' = parsed.rows
    /\ UNCHANGED <<id, report, op, devices>>

\* resource.Retry gives up: the minute elapsed while the report was still
\* being generated
RetryTimeout ==
    /\ pc = "get"
    /\ NumGets(calls) >= 1
    /\ pc' = "done"
    /\ result' = "timeout"
    /\ UNCHANGED <<id, report, op, calls, content, rows, devices>>

ListVirtualMFADevices_storeFirst ==
    /\ pc = "list"
    /\ \/ LET next == Retry(NonRetryableError("ListError"))
          IN  /\ calls' = Append(calls, Call("ListVirtualMFADevices", "ListError"))
              /\ pc' = next.pc
              /\ result' = next.result
              /\ report' = flattenCredentialReport(rows)
              /\ UNCHANGED <<rows, devices>>
       \/ \E ds \in DeviceLists :
            LET next == Retry(NoError)
            IN  /\ calls' = Append(calls, Call("ListVirtualMFADevices", "nil"))
                /\ devices' = ds
                /\ rows' = Enrich(rows, ds)
                /\ report' = flattenCredentialReport(rows')
                /\ pc' = next.pc
                /\ result' = next.result
    /\ UNCHANGED <<id, op, content>>

\* the rest of the retried function: iamconn.ListVirtualMFADevices, the
\* enrichment of the rows and d.Set("report", ...)
ListVirtualMFADevices ==
    /\ pc = "list"
    /\ \/ LET next == Retry(NonRetryableError("ListError"))
          IN  /\ calls' = Append(calls, Call("ListVirtualMFADevices", "ListError"))
              /\ pc' = next.pc
              /\ result' = next.result
              /\ UNCHANGED <<report, rows, devices>>
       \/ \E ds \in DeviceLists :
            LET next == Retry(NoError)
            IN  /\ calls' = Append(calls, Call("ListVirtualMFADevices", "nil"))
                /\ devices' = ds
                /\ rows' = Enrich(rows, ds)
                /\ report' = flattenCredentialReport(rows')
                /\ pc' = next.pc
                /\ result' = next.result
    /\ UNCHANGED <<id, op, content>>

Delete_clearsState ==
    /\ Idle
    /\ id # ""
    /\ op' = "delete"
    /\ pc' = "done"
    /\ result' = "nil"
    /\ id' = ""
    /\ report' = <<>>
    /\ UNCHANGED <<calls, content, rows, devices>>

\* resourceAwsIamCredentialReportDelete: return nil
Delete ==
    /\ Idle
    /\ id # ""
    /\ op' = "delete"
    /\ pc' = "done"
    /\ result' = "nil"
    /\ UNCHANGED <<id, report, calls, content, rows, devices>>

\* schema.ImportStatePassthrough: the record keeps the id the import names
Import ==
    /\ Idle
    /\ id = ""
    /\ \E i \in ImportIds : id' = i
    /\ op' = "import"
    /\ pc' = "done"
    /\ result' = "nil"
    /\ UNCHANGED <<report, calls, content, rows, devices>>

Next ==
    \/ Create
    \/ Update
    \/ Read
    \/ Delete
    \/ Import
    \/ GenerateCredentialReport
    \/ GetCredentialReport
    \/ RetryTimeout
    \/ ListVirtualMFADevices

Spec == Init /\ [][Next]_vars

---------------------------------------------------------------------------
(* Vocabulary of the properties, stated on the payload and the requests    *)
(* themselves.                                                             *)

ReadOps == {"create", "update", "read"}

\* a create, update or read has returned
Finished == pc = "done" /\ op \in ReadOps

Succeeded == Finished /\ result = "nil"

IsGet(c) == c.api = "GetCredentialReport"

IsList(c) == c.api = "ListVirtualMFADevices"

IsGenerate(c) == c.api = "GenerateCredentialReport"

GetAt == {i \in 1..Len(calls) : IsGet(calls[i])}

\* the last read fetched a payload
Fetched == \E i \in GetAt : calls[i].out = "nil"

\* the positions of the payload's lines that are not blank
NonBlank(c) == {i \in 1..Len(c) : Len(c[i]) > 0}

\* the n-th line that is not blank
NthLine(c, n) ==
    c[CHOOSE i \in NonBlank(c) : Cardinality({j \in NonBlank(c) : j < i}) = n - 1]

HeaderOf(c) == NthLine(c, 1)

DataLine(c, n) == NthLine(c, n + 1)

NumDataLines(c) == Cardinality(NonBlank(c)) - 1

\* every line has as many fields as the header
Rectangular(c) ==
    /\ NonBlank(c) # {}
    /\ \A i \in NonBlank(c) : Len(c[i]) = Len(HeaderOf(c))

Has(h, k) == \E i \in 1..Len(h) : h[i] = k

\* the field of data line n under the column named k
Token(c, n, k) == DataLine(c, n)[CHOOSE i \in 1..Len(HeaderOf(c)) : HeaderOf(c)[i] = k]

CsvErrors == {"EOF", "ErrFieldCount"}

\* the name a serial number of the form arn:aws:iam::<digits>:mfa/<name> carries
IsMfaArn(s) ==
    /\ s.pre = "arn:aws:iam::"
    /\ s.acct # <<>>
    /\ {s.acct[i] : i \in 1..Len(s.acct)} \subseteq Digits
    /\ s.sep = ":mfa/"

ReportName(s) == IF s.name = "root-account-mfa-device" THEN "<root_account>" ELSE s.name

---------------------------------------------------------------------------
(* C1 *)

\* the GetCredentialReport outcomes are K times ReportInProgress, then success
NotReadyThenSuccess ==
    /\ GetAt # {}
    /\ \A i \in GetAt : IF \E j \in GetAt : j > i
                        THEN calls[i].out = "ReportInProgress"
                        ELSE calls[i].out = "nil"

AlwaysNotReady ==
    /\ GetAt # {}
    /\ \A i \in GetAt : calls[i].out = "ReportInProgress"

\* C1 as stated: a read whose get-report call is not ready K times and then
\* succeeds ends in success with the parsed report stored; a read whose
\* get-report call stays not ready ends with the timeout error, the last
\* request being a get-report attempt.
C1_PollingAsStated ==
    /\ (Finished /\ NotReadyThenSuccess) =>
          /\ result = "nil"
          /\ Len(report) = NumDataLines(content)
    /\ (Finished /\ AlwaysNotReady) =>
          /\ result = "timeout"
          /\ IsGet(calls[Len(calls)])

\* C1 amended: a read whose get-report call is not ready K times and then
\* succeeds, whose payload parses and whose list-virtual-MFA call succeeds,
\* ends in success with the parsed, enriched report stored; a read whose
\* get-report call stays not ready ends with the timeout error, the last
\* request being a get-report attempt; a read in progress after a not-ready
\* answer is still polling.
C1_Polling ==
    /\ (Finished /\ NotReadyThenSuccess /\ Rectangular(content)
          /\ calls[Len(calls)] = Call("ListVirtualMFADevices", "nil")) =>
          /\ result = "nil"
          /\ Len(report) = NumDataLines(content)
          /\ report = flattenCredentialReport(rows)
    /\ (Finished /\ AlwaysNotReady) =>
          /\ result = "timeout"
          /\ IsGet(calls[Len(calls)])
    /\ (op \in ReadOps /\ pc # "done" /\ AlwaysNotReady) => pc = "get"

\* a read succeeded on its second attempt or later and stored rows
C1_Witness ==
    /\ Succeeded
    /\ Cardinality(GetAt) >= 2
    /\ NotReadyThenSuccess
    /\ report # <<>>

---------------------------------------------------------------------------
(* C2 *)

\* C2: in every read, a request that failed with anything but
\* ReportInProgress, and a fetch whose payload does not parse, is the last
\* request of the read, which has ended with that error; every get-report
\* attempt after the first follows a ReportInProgress answer.
C2_OnlyNotReadyRetried ==
    op \in ReadOps =>
      \A i \in 1..Len(calls) :
        /\ calls[i].out \notin {"nil", "ReportInProgress"} =>
              /\ i = Len(calls)
              /\ pc = "done"
              /\ result = calls[i].out
        /\ (IsGet(calls[i]) /\ calls[i].out = "nil" /\ ~Rectangular(content)) =>
              /\ i = Len(calls)
              /\ pc = "done"
              /\ result \in CsvErrors
        /\ (IsGet(calls[i]) /\ i > 1 /\ IsGet(calls[i - 1])) =>
              calls[i - 1].out = "ReportInProgress"

\* a read failed on a payload that does not parse, fetched on a retry
C2_Witness ==
    /\ Finished
    /\ result \in CsvErrors
    /\ Cardinality(GetAt) >= 2
    /\ ~Rectangular(content)

---------------------------------------------------------------------------
(* C3 *)

LacksRequiredColumn(c) ==
    /\ NonBlank(c) # {}
    /\ \E k \in RequiredColumns : ~Has(HeaderOf(c), k)

\* C3: once a read has fetched a payload whose header lacks a required
\* column, the parse has failed with no rows and the read has failed.
C3_MissingColumnFails ==
    (op \in ReadOps /\ Fetched /\ LacksRequiredColumn(content)) =>
      /\ rows = <<>>
      /\ pc = "done"
      /\ result \in CsvErrors

---------------------------------------------------------------------------
(* C4 *)

\* C4: the rows parsed from an accepted payload, and the stored report made
\* of them, are as many as the data lines of the payload, and the i-th
\* carries the fields of the i-th data line for the columns of the header.
C4_RowsInOrder ==
    /\ (op \in ReadOps /\ pc = "list") =>
          /\ Len(rows) = NumDataLines(content)
          /\ \A i \in 1..Len(rows) :
               /\ Has(HeaderOf(content), "user") =>
                     rows[i].User = Token(content, i, "user")
               /\ Has(HeaderOf(content), "password_last_changed") =>
                     rows[i].PasswordLastChanged = Token(content, i, "password_last_changed")
    /\ Succeeded =>
          /\ Len(report) = NumDataLines(content)
          /\ \A i \in 1..Len(report) :
               /\ Has(HeaderOf(content), "user") =>
                     report[i].user = Token(content, i, "user")
               /\ Has(HeaderOf(content), "access_key_2_last_rotated") =>
                     report[i].access_keys[2].last_rotated
                       = Token(content, i, "access_key_2_last_rotated")
               /\ Len(report[i].access_keys) = 2

\* a report of two different users was stored from a payload whose columns
\* are not in IAM's order
C4_Witness ==
    /\ Succeeded
    /\ Len(report) >= 2
    /\ report[1].user # report[2].user
    /\ HeaderOf(content) = Reverse(FullHeader)

---------------------------------------------------------------------------
(* C5 *)

\* C5: in a stored report a row has mfa_virtual exactly when some listed
\* device has a serial number of the form arn:aws:iam::<digits>:mfa/<name>
\* whose name, root-account-mfa-device read as <root_account>, is the
\* row's user; a listing that succeeded never fails the read.
C5_VirtualMfa ==
    /\ Succeeded =>
         \A i \in 1..Len(report) :
           report[i].mfa_virtual <=>
             \E j \in 1..Len(devices) :
               IsMfaArn(devices[j]) /\ ReportName(devices[j]) = report[i].user
    /\ (Finished /\ calls # <<>> /\ calls[Len(calls)] = Call("ListVirtualMFADevices", "nil")) =>
         result = "nil"

\* the root account's row was flagged by the root device, next to a row
\* that was not flagged and a device that is no MFA ARN
C5_Witness ==
    /\ Succeeded
    /\ \E i \in 1..Len(report) : report[i].user = "<root_account>" /\ report[i].mfa_virtual
    /\ \E i \in 1..Len(report) : ~report[i].mfa_virtual
    /\ \E j \in 1..Len(devices) : ~IsMfaArn(devices[j])
    /\ \E j \in 1..Len(devices) : devices[j].name = "root-account-mfa-device"

---------------------------------------------------------------------------
(* C6 *)

\* C6: the stored report changes only in the step that ends a create,
\* update or read in success; every other step, and so every read that
\* fails, leaves it as it was.
C6_NoPartialReport ==
    [][report' # report => (pc' = "done" /\ result' = "nil" /\ op' \in ReadOps)]_vars

\* a read failed after parsing other rows than the stored ones
C6_Witness ==
    /\ Finished
    /\ result = "ListError"
    /\ report # <<>>
    /\ flattenCredentialReport(rows) # report

---------------------------------------------------------------------------
(* C7 *)

\* at most one list request, the last one, after a fetch that parsed
ListOnlyAfterFetch ==
    \A i \in 1..Len(calls) :
      IsList(calls[i]) =>
        /\ i = Len(calls)
        /\ i > 1
        /\ calls[i - 1] = Call("GetCredentialReport", "nil")
        /\ Rectangular(content)

OneTriggerFirst ==
    /\ calls # <<>>
    /\ \A i \in 1..Len(calls) : IsGenerate(calls[i]) <=> i = 1

\* C7 as stated: every create, update and read that has returned issued
\* one trigger request first, then one or more get-report requests, then at
\* most one list request after a fetch that parsed.
C7_SameSequenceAsStated ==
    Finished =>
      /\ OneTriggerFirst
      /\ GetAt # {}
      /\ ListOnlyAfterFetch

\* C7 amended: every create, update and read that has returned issued one
\* trigger request first, then, unless the trigger failed, one or more
\* get-report requests, then at most one list request after a fetch that
\* parsed; a failed trigger is the only request of its read.
C7_SameSequence ==
    Finished =>
      /\ OneTriggerFirst
      /\ IF calls[1].out = "nil" THEN GetAt # {} ELSE Len(calls) = 1
      /\ ListOnlyAfterFetch

\* a read ran the whole sequence while a report of an earlier call was stored
C7_Witness ==
    /\ Finished
    /\ op = "read"
    /\ report # <<>>
    /\ IsList(calls[Len(calls)])
    /\ Cardinality(GetAt) >= 2

---------------------------------------------------------------------------
(* C8 *)

\* C8: whenever a create, update, read or import has returned, the id is
\* iam-credential-report.
C8_FixedId ==
    (pc = "done" /\ op \in ReadOps \cup {"import"}) => id = ResourceId

---------------------------------------------------------------------------
(* C9 *)

\* C9: the step of a delete issues no request, leaves the id and the
\* stored report as they were, and returns nil.
C9_DeleteIsNoOp ==
    [][op' = "delete" =>
         /\ calls' = calls
         /\ id' = id
         /\ report' = report
         /\ pc' = "done"
         /\ result' = "nil"]_vars

\* a delete returned on a resource with a stored report
C9_Witness ==
    /\ op = "delete"
    /\ pc = "done"
    /\ result = "nil"
    /\ report # <<>>
    /\ id = ResourceId

---------------------------------------------------------------------------
(* C10 *)

\* C10: every boolean field of a parsed row and of a stored row is true
\* exactly when the field of its line under the column of that name is the
\* literal true, and a CSV error comes only from a payload without records
\* or with a line of another field count, never from a token.
C10_BoolDecoding ==
    /\ (op \in ReadOps /\ pc = "list") =>
         \A i \in 1..Len(rows) :
           /\ Has(HeaderOf(content), "password_enabled") =>
                (rows[i].PasswordEnabled <=> Token(content, i, "password_enabled") = "true")
           /\ Has(HeaderOf(content), "mfa_active") =>
                (rows[i].MfaActive <=> Token(content, i, "mfa_active") = "true")
    /\ Succeeded =>
         \A i \in 1..Len(report) :
           /\ Has(HeaderOf(content), "password_enabled") =>
                (report[i].password_enabled <=> Token(content, i, "password_enabled") = "true")
           /\ Has(HeaderOf(content), "mfa_active") =>
                (report[i].mfa_active <=> Token(content, i, "mfa_active") = "true")
           /\ Has(HeaderOf(content), "access_key_1_active") =>
                (report[i].access_keys[1].active
                   <=> Token(content, i, "access_key_1_active") = "true")
           /\ Has(HeaderOf(content), "access_key_2_active") =>
                (report[i].access_keys[2].active
                   <=> Token(content, i, "access_key_2_active") = "true")
    /\ (Finished /\ result \in CsvErrors) => ~Rectangular(content)

\* a stored row holds true for the token true and false for the token TRUE
C10_Witness ==
    /\ Succeeded
    /\ HeaderOf(content) \in CompleteHeaders
    /\ \E i \in 1..Len(report) :
         /\ report[i].password_enabled
         /\ Token(content, i, "access_key_1_active") = "TRUE"
         /\ ~report[i].access_keys[1].active

===========================================================================
